---------------------------- MODULE Spec2Model ----------------------------
(***************************************************************************)
(* lsh: an interactive command interpreter.  One line is read at a time,   *)
(* split on whitespace, its arguments are expanded against the shell's     *)
(* environment store, and the line is run by a builtin or by an external   *)
(* process.                                                                *)
(*                                                                         *)
(* Text is modelled by TLA+ strings; Len, \o, SubSeq and Tail work on them *)
(* character by character.  A file-system path is a sequence of bytes and  *)
(* need not be valid UTF-8: in a path, the character BadByte stands for a  *)
(* byte that is not valid UTF-8, and ReplacementChar for U+FFFD.           *)
(***************************************************************************)
EXTENDS Integers, Sequences, FiniteSets, TLC

VARIABLES
    env,      \* ShellEnv.vars of main's `env`: variable name -> value
    cwd,      \* the real working directory of the process
    status,   \* where main is: "running" (in the loop), "stopped", "panicked"
    n,        \* number of lines the line source has delivered
    cmd,      \* command name of the last dispatched line ("" before any)
    raw,      \* its raw argument tokens
    args,     \* its expanded argument tokens
    out,      \* what the last dispatched line wrote to the output sink
    err,      \* what the last dispatched line wrote to the error sink
    action,   \* the ShellAction the last dispatched line returned
    child,    \* <<>> or <<c>>: the child process the last line tried to start
    host,     \* the environment of the host process (never changes)
    input,    \* scripted line source: the lines still to be delivered
    hist      \* scripted line source: one record per line dispatched so far

vars == <<env, cwd, status, n, cmd, raw, args, out, err, action, child,
          host, input, hist>>

-----------------------------------------------------------------------------
(* Bounds *)

MaxLines == 2

MaxArgs == 3

-----------------------------------------------------------------------------
(* Text helpers *)

\* str::starts_with
StartsWith(s, p) == Len(s) >= Len(p) /\ SubSeq(s, 1, Len(p)) = p

\* &s[1..]
DropFirst(s) == SubSeq(s, 2, Len(s))

IsWhitespace(c) == c \in {" ", "\t"}

RECURSIVE SplitFrom(_, _, _)
SplitFrom(s, i, cur) ==
    IF i > Len(s)
    THEN IF cur = "" THEN <<>> ELSE <<cur>>
    ELSE LET c == SubSeq(s, i, i) IN
         IF IsWhitespace(c)
         THEN (IF cur = "" THEN <<>> ELSE <<cur>>) \o SplitFrom(s, i + 1, "")
         ELSE SplitFrom(s, i + 1, cur \o c)

\* str::split_whitespace().collect()
split_whitespace(s) == SplitFrom(s, 1, "")

RECURSIVE join(_, _)
\* [&str]::join(sep)
join(ss, sep) ==
    IF ss = <<>> THEN ""
    ELSE IF Len(ss) = 1 THEN ss[1]
    ELSE ss[1] \o sep \o join(Tail(ss), sep)

\* Option<T>
None == <<>>
Some(v) == <<v>>

-----------------------------------------------------------------------------
(* The file system and the host, as the process sees them.  The file      *)
(* system does not change during a session: a child process is not taken  *)
(* to create or remove directories.  The shell can have been started in a *)
(* directory that was removed since (Gone), where getcwd fails.           *)

BadByte == "#"
ReplacementChar == "?"

\* The directories that exist, by canonical absolute path.
Dirs == {"/", "/h", "/a", "/" \o BadByte}

\* Symbolic links to directories.
Link == ("/s" :> "/" \o BadByte)

\* Programs that exist on the host.
Programs == {"ls"}

ENOENT == "No such file or directory (os error 2)"

RECURSIVE to_string_lossy(_)
\* Path::to_string_lossy / Path::display: every invalid byte becomes U+FFFD
to_string_lossy(p) ==
    IF p = "" THEN ""
    ELSE (IF SubSeq(p, 1, 1) = BadByte THEN ReplacementChar ELSE SubSeq(p, 1, 1))
         \o to_string_lossy(DropFirst(p))

\* The working directory of a process whose directory no longer exists.
Gone == ""

\* env::current_dir(): None stands for Err
current_dir(wd) == IF wd = Gone THEN None ELSE Some(wd)

\* The directory a path names from working directory wd, or None.
Resolve(wd, p) ==
    LET abs == IF StartsWith(p, "/") THEN p
               ELSE IF wd = "/" THEN "/" \o p
               ELSE wd \o "/" \o p
        canon == IF abs \in DOMAIN Link THEN Link[abs] ELSE abs
    IN  IF p # "" /\ canon \in Dirs THEN Some(canon) ELSE None

-----------------------------------------------------------------------------
(* environment.rs *)

get_var(e, key) == IF key \in DOMAIN e THEN Some(e[key]) ELSE None

\* set_var that keeps the value of a key already present
set_var_keep(e, key, value) ==
    [k \in DOMAIN e \cup {key} |-> IF k \in DOMAIN e THEN e[k] ELSE value]

set_var(e, key, value) ==
    [k \in DOMAIN e \cup {key} |-> IF k = key THEN value ELSE e[k]]

unset_var(e, key) == [k \in DOMAIN e \ {key} |-> e[k]]

EmptyEnv == [k \in {} |-> ""]

-----------------------------------------------------------------------------
(* main.rs: the argument expander *)

\* expand_arg with an unset variable expanding to the empty string
expand_arg_empty(arg, e) ==
    IF StartsWith(arg, "$")
    THEN LET v == get_var(e, DropFirst(arg)) IN
         IF v # None THEN v[1] ELSE ""
    ELSE arg

\* expand_arg looking for the sigil anywhere in the token
expand_arg_anywhere(arg, e) ==
    IF \E i \in 1..Len(arg) : SubSeq(arg, i, i) = "$"
    THEN LET name == CHOOSE t \in {SubSeq(arg, i + 1, Len(arg)) : i \in 1..Len(arg)} :
                         \E i \in 1..Len(arg) :
                             /\ SubSeq(arg, i, i) = "$"
                             /\ t = SubSeq(arg, i + 1, Len(arg))
                             /\ \A j \in 1..(i - 1) : SubSeq(arg, j, j) # "$"
             v == get_var(e, name)
         IN  IF v # None THEN v[1] ELSE arg
    ELSE arg

\* expand_arg expanding the value it found once more
expand_arg_twice(arg, e) ==
    IF StartsWith(arg, "$")
    THEN LET v == get_var(e, DropFirst(arg)) IN
         IF v # None
         THEN (IF StartsWith(v[1], "$") /\ get_var(e, DropFirst(v[1])) # None
               THEN get_var(e, DropFirst(v[1]))[1]
               ELSE v[1])
         ELSE arg
    ELSE arg

expand_arg(arg, e) ==
    IF StartsWith(arg, "$")
    THEN LET v == get_var(e, DropFirst(arg)) IN
         IF v # None THEN v[1] ELSE arg
    ELSE arg

expand_args(as, e) == [i \in 1..Len(as) |-> expand_arg(as[i], e)]

-----------------------------------------------------------------------------
(* builtins.rs.  A builtin takes the arguments, the store and the process's *)
(* working directory and gives what it leaves: the store, the working      *)
(* directory, the text written to each sink and the ShellAction.  A sink   *)
(* accepts every write (the tests pass a Vec<u8>), so writeln! gives Ok.   *)

Continue == "Continue"
Exit == "Exit"

\* Not a ShellAction: the call panicked (an unwrap() of an Err) and did not
\* return.
Panic == "Panic"

Result(e, wd, o, er, a) ==
    [env |-> e, cwd |-> wd, out |-> o, err |-> er, action |-> a, child |-> <<>>]

\* cd_target with `cd -` going to HOME when there is no OLDPWD
cd_target_dash_home(as, e) ==
    IF as = <<>> \/ (as[1] = "-" /\ get_var(e, "OLDPWD") = None)
    THEN (IF get_var(e, "HOME") # None THEN get_var(e, "HOME") ELSE Some("/"))
    ELSE IF as[1] = "-" THEN get_var(e, "OLDPWD")
    ELSE Some(as[1])

\* cd_target with a bare `cd` going to `/` whatever HOME is
cd_target_no_home(as, e) ==
    IF as = <<>> THEN Some("/")
    ELSE IF as[1] = "-" THEN get_var(e, "OLDPWD")
    ELSE Some(as[1])

\* builtin_cd's target directory; None when `cd -` finds no OLDPWD
cd_target(as, e) ==
    IF as = <<>>
    THEN (IF get_var(e, "HOME") # None THEN get_var(e, "HOME") ELSE Some("/"))
    ELSE IF as[1] = "-" THEN get_var(e, "OLDPWD")
    ELSE Some(as[1])

\* builtin_cd recording OLDPWD before it tries to change directory
builtin_cd_eager(as, e, wd) ==
    LET target == cd_target(as, e) IN
    IF target = None
    THEN Result(e, wd, "", "cd: OLDPWD not set" \o "\n", Continue)
    ELSE IF current_dir(wd) = None
    THEN Result(e, wd, "", "", Panic)
    ELSE LET old_pwd == current_dir(wd)[1]
             e1 == set_var(e, "OLDPWD", to_string_lossy(old_pwd))
             changed == Resolve(wd, target[1])
         IN
         IF changed = None
         THEN Result(e1, wd, "", "cd: " \o ENOENT \o "\n", Continue)
         ELSE Result(set_var(e1, "PWD", to_string_lossy(changed[1])),
                     changed[1], "", "", Continue)

builtin_cd(as, e, wd) ==
    LET target == cd_target(as, e) IN
    IF target = None
    THEN Result(e, wd, "", "cd: OLDPWD not set" \o "\n", Continue)
    ELSE IF current_dir(wd) = None
    THEN Result(e, wd, "", "", Panic)
    ELSE LET old_pwd == current_dir(wd)[1]
             changed == Resolve(wd, target[1])
         IN
         IF changed = None
         THEN Result(e, wd, "", "cd: " \o ENOENT \o "\n", Continue)
         ELSE LET new_pwd == current_dir(changed[1])[1]
                  e1 == set_var(e, "OLDPWD", to_string_lossy(old_pwd))
                  e2 == set_var(e1, "PWD", to_string_lossy(new_pwd))
              IN Result(e2, new_pwd, "", "", Continue)

\* builtin_pwd recording the directory it prints in PWD
builtin_pwd_store(as, e, wd) ==
    IF current_dir(wd) = None
    THEN Result(e, wd, "", "", Panic)
    ELSE Result(set_var(e, "PWD", to_string_lossy(current_dir(wd)[1])), wd,
                to_string_lossy(current_dir(wd)[1]) \o "\n", "", Continue)

builtin_pwd(as, e, wd) ==
    IF current_dir(wd) = None
    THEN Result(e, wd, "", "", Panic)
    ELSE Result(e, wd, to_string_lossy(current_dir(wd)[1]) \o "\n", "", Continue)

\* builtin_echo writing a space after every argument
builtin_echo_trailing(as, e, wd) ==
    Result(e, wd, join([i \in 1..Len(as) |-> as[i] \o " "], "") \o "\n", "",
           Continue)

builtin_echo(as, e, wd) ==
    Result(e, wd, join(as, " ") \o "\n", "", Continue)

\* builtin_exit that exits only when called without arguments
builtin_exit_noargs(as, e, wd) ==
    IF as = <<>> THEN Result(e, wd, "", "", Exit)
    ELSE Result(e, wd, "", "exit: too many arguments" \o "\n", Continue)

builtin_exit(as, e, wd) == Result(e, wd, "", "", Exit)

\* builtin_set that only refuses too few arguments
builtin_set_atleast(as, e, wd) ==
    IF Len(as) < 2
    THEN Result(e, wd, "", "usage: set VAR VALUE" \o "\n", Continue)
    ELSE Result(set_var(e, as[1], as[2]), wd, "", "", Continue)

builtin_set(as, e, wd) ==
    IF Len(as) # 2
    THEN Result(e, wd, "", "usage: set VAR VALUE" \o "\n", Continue)
    ELSE Result(set_var(e, as[1], as[2]), wd, "", "", Continue)

builtin_unset(as, e, wd) ==
    IF Len(as) # 1
    THEN Result(e, wd, "", "usage: unset VAR" \o "\n", Continue)
    ELSE Result(unset_var(e, as[1]), wd, "", "", Continue)

\* The orders in which a HashMap with these keys can be iterated.
Orders(keys) ==
    {s \in [1..Cardinality(keys) -> keys] : \A k \in keys : \E i \in DOMAIN s : s[i] = k}

RECURSIVE EnvLines(_, _)
EnvLines(e, order) ==
    IF order = <<>> THEN ""
    ELSE order[1] \o "=" \o e[order[1]] \o "\n" \o EnvLines(e, Tail(order))

\* builtin_env printing the variables the shell started with
builtin_env_stale(as, e, wd) ==
    {Result(e, wd, EnvLines(host, order), "", Continue) : order \in Orders(DOMAIN host)}

\* builtin_env iterates the HashMap: one result per iteration order
builtin_env(as, e, wd) ==
    {Result(e, wd, EnvLines(e, order), "", Continue) : order \in Orders(DOMAIN e)}

\* builtins(): the registry
BuiltinNames == {"cd", "pwd", "echo", "exit", "set", "unset", "env"}

\* the registry's function for a name, applied; a set of possible results
builtin_fn(name, as, e, wd) ==
    CASE name = "cd"    -> {builtin_cd(as, e, wd)}
      [] name = "pwd"   -> {builtin_pwd(as, e, wd)}
      [] name = "echo"  -> {builtin_echo(as, e, wd)}
      [] name = "exit"  -> {builtin_exit(as, e, wd)}
      [] name = "set"   -> {builtin_set(as, e, wd)}
      [] name = "unset" -> {builtin_unset(as, e, wd)}
      [] name = "env"   -> builtin_env(as, e, wd)

-----------------------------------------------------------------------------
(* main.rs / external.rs: the external executor *)

\* env_clear that keeps the host environment
env_clear_keep(inherited) == inherited

\* Command::env_clear: nothing of the host environment is kept
env_clear(inherited) == EmptyEnv

\* Command::envs: the given pairs are added
envs(base, e) == [k \in DOMAIN base \cup DOMAIN e |->
                     IF k \in DOMAIN e THEN e[k] ELSE base[k]]

\* spawn() fails for a program that does not exist, and can fail for one
\* that does (permissions, resources).
run_external(name, as, e, wd) ==
    LET childEnv == envs(env_clear(host), e)
        started == [env |-> e, cwd |-> wd, out |-> "", err |-> "",
                    action |-> Continue,
                    child |-> <<[cmd |-> name, args |-> as, env |-> childEnv,
                                 started |-> TRUE]>>]
        failed  == [env |-> e, cwd |-> wd, out |-> "",
                    err |-> "error running '" \o name \o "': " \o ENOENT \o "\n",
                    action |-> Continue,
                    child |-> <<[cmd |-> name, args |-> as, env |-> childEnv,
                                 started |-> FALSE]>>]
    IN  IF name \in Programs THEN {started, failed} ELSE {failed}

-----------------------------------------------------------------------------
(* main.rs: the dispatcher *)

\* handle_command reporting an unknown name itself, without a spawn
handle_command_nospawn(parts, e, wd) ==
    LET name == Head(parts)
        expanded_args == expand_args(Tail(parts), e)
    IN  IF name \in BuiltinNames
        THEN builtin_fn(name, expanded_args, e, wd)
        ELSE {Result(e, wd, "", name \o ": command not found" \o "\n", Continue)}

\* handle_command expanding against the variables the shell started with
handle_command_stale(parts, e, wd) ==
    LET name == Head(parts)
        expanded_args == expand_args(Tail(parts), host)
    IN  IF name \in BuiltinNames
        THEN builtin_fn(name, expanded_args, e, wd)
        ELSE run_external(name, expanded_args, e, wd)

\* handle_command expanding the arguments of external commands only
handle_command_rawbuiltin(parts, e, wd) ==
    LET name == Head(parts)
        expanded_args == expand_args(Tail(parts), e)
    IN  IF name \in BuiltinNames
        THEN builtin_fn(name, Tail(parts), e, wd)
        ELSE run_external(name, expanded_args, e, wd)

\* handle_command after the split: the possible results for parts # <<>>
handle_command(parts, e, wd) ==
    LET name == Head(parts)
        expanded_args == expand_args(Tail(parts), e)
    IN  IF name \in BuiltinNames
        THEN builtin_fn(name, expanded_args, e, wd)
        ELSE run_external(name, expanded_args, e, wd)

\* One line goes through handle_command.  parts.split_first().unwrap()
\* panics on a line with no token; a panic in a builtin unwinds through
\* handle_command and main.
Dispatch(line) ==
    LET parts == split_whitespace(line) IN
    IF parts = <<>>
    THEN /\ status' = "panicked"
         /\ cmd' = "" /\ raw' = <<>> /\ args' = <<>>
         /\ out' = "" /\ err' = "" /\ action' = "" /\ child' = <<>>
         /\ UNCHANGED <<env, cwd>>
    ELSE \E r \in handle_command(parts, env, cwd) :
         /\ env' = r.env
         /\ cwd' = r.cwd
         /\ out' = r.out
         /\ err' = r.err
         /\ action' = r.action
         /\ child' = r.child
         /\ cmd' = Head(parts)
         /\ raw' = Tail(parts)
         /\ args' = expand_args(Tail(parts), env)
         /\ status' = CASE r.action = Exit -> "stopped"
                         [] r.action = Panic -> "panicked"
                         [] OTHER -> "running"

-----------------------------------------------------------------------------
(* main.rs: the session *)

\* Environments the host process can have when the shell starts.
HostEnvs ==
    { EmptyEnv,
      [HOME |-> "/h", A |-> "$B", B |-> "/a"],
      [HOME |-> "/x", OLDPWD |-> "/a", PWD |-> "/h"],
      [M |-> "a\nb"] }

\* Directories the shell can be started in.
StartDirs == {"/", "/" \o BadByte, Gone}

\* Lines the line source can deliver.
Lines ==
    { "", "  ",
      "exit", "exit now",
      "echo", "echo a  b", "echo $A a$b",
      "pwd", "env",
      "set", "set A", "set A /a", "set A B C", "set HOME /x", "set $A v",
      "unset", "unset A", "unset HOME", "unset A B", "unset OLDPWD",
      "cd", "cd -", "cd /a", "cd /s", "cd /x", "cd h", "cd $B", "cd /a /x",
      "ls", "ls $A", "Exit" }

\* ShellEnv::new() and the state before the first readline
InitCommon ==
    /\ host \in HostEnvs
    /\ env = host
    /\ cwd \in StartDirs
    /\ status = "running"
    /\ n = 0
    /\ cmd = "" /\ raw = <<>> /\ args = <<>>
    /\ out = "" /\ err = "" /\ action = "" /\ child = <<>>
    /\ hist = <<>>

Init == InitCommon /\ input = <<>>

\* readline gives Ok(input); the line is dispatched; Exit leaves the loop
ReadLineOk(line) ==
    /\ status = "running"
    /\ n < MaxLines
    /\ Dispatch(line)
    /\ n' = n + 1
    /\ UNCHANGED <<host, input, hist>>

\* readline gives Err(Interrupted): "CTRL-C" and the loop is left
ReadLineInterrupted ==
    /\ status = "running"
    /\ status' = "stopped"
    /\ UNCHANGED <<env, cwd, n, cmd, raw, args, out, err, action, child,
                   host, input, hist>>

\* readline gives Err(Eof): "CTRL-D" and the loop is left
ReadLineEof ==
    /\ status = "running"
    /\ status' = "stopped"
    /\ UNCHANGED <<env, cwd, n, cmd, raw, args, out, err, action, child,
                   host, input, hist>>

\* readline gives any other Err: it is printed and the loop is left
ReadLineErr ==
    /\ status = "running"
    /\ status' = "stopped"
    /\ UNCHANGED <<env, cwd, n, cmd, raw, args, out, err, action, child,
                   host, input, hist>>

Next ==
    \/ \E line \in Lines : ReadLineOk(line)
    \/ ReadLineInterrupted
    \/ ReadLineEof
    \/ ReadLineErr

Spec == Init /\ [][Next]_vars

-----------------------------------------------------------------------------
(* The session over a scripted line source: the lines are fixed at the     *)
(* start, and every dispatched line leaves a record.                       *)

\* Paths a user can type that name an existing directory from anywhere.
DirPaths == {"/", "/h", "/a", "/s"}

ToggleScripts ==
    { <<"cd " \o d1, "cd " \o d2, "cd -", "cd -">> :
        <<d1, d2>> \in {p \in DirPaths \X DirPaths : p[1] # p[2]} }

HomeScripts ==
    { <<"cd", "pwd">>, <<"unset HOME", "cd", "pwd">> }
    \cup { <<"set HOME " \o p, "cd", "pwd">> : p \in {"/a", "/x", "/s", "h"} }

\* Sessions with lines after an `exit`.
ExitScripts ==
    { <<"set A v", "exit", "set A w", "cd /a">>,
      <<"cd /a", "exit now", "unset HOME", "cd /">> }

\* Sessions that change the store and then run an external command.
ChildScripts ==
    { <<"set A x", "set A /a", "unset HOME", "ls $A">>,
      <<"cd /a", "unset B", "set HOME /h", "ls">> }

\* Sessions of echo lines.
EchoScripts ==
    { <<"echo a b c", "echo", "echo  x   $A ">>, <<"echo -n", "echo $HOME$A $">> }

\* Sessions that change the store and then list it.
EnvScripts ==
    { <<"set USER alice", "set HOME /tmp", "env">>,
      <<"set A x", "unset B", "set A y", "env">> }

\* Sessions that use a variable after changing it.
ExpandScripts ==
    { <<"set K V", "echo $K", "unset K", "echo $K">>,
      <<"set A $A", "echo $A", "unset $A", "echo $A">>,
      <<"unset A", "set A $A", "echo $A x">> }

\* Sessions that set or unset PWD and OLDPWD between cds.
PwdScripts ==
    { <<"cd /a", "set PWD /h", "cd /", "set OLDPWD /h", "cd -">>,
      <<"set PWD /x", "unset OLDPWD", "cd /h", "unset PWD", "cd -">>,
      <<"set OLDPWD /s", "cd -", "unset PWD", "cd /a">> }

\* Sessions that give `set` and `unset` a `$` token.
BuiltinArgScripts ==
    { <<"set A B", "set $A v", "set K $A", "unset $A">>,
      <<"set A B", "set B w", "unset $A", "set $A v">>,
      <<"unset A", "set $A v", "set K $A", "unset $A">> }

Scripts ==
    ToggleScripts \cup HomeScripts \cup ExitScripts \cup ChildScripts
        \cup EchoScripts \cup EnvScripts \cup ExpandScripts \cup PwdScripts
        \cup BuiltinArgScripts

InitScript == InitCommon /\ input \in Scripts

\* ReadScripted in a loop that is not left when a line returns Exit
ReadScriptedOn ==
    /\ status \in {"running", "stopped"}
    /\ input # <<>>
    /\ Dispatch(Head(input))
    /\ n' = n + 1
    /\ input' = Tail(input)
    /\ hist' = Append(hist, [cmd |-> cmd', raw |-> raw', args |-> args',
                             env0 |-> env, cwd0 |-> cwd,
                             env |-> env', cwd |-> cwd', out |-> out',
                             err |-> err', action |-> action',
                             child |-> child'])
    /\ UNCHANGED host

\* readline gives Ok(the next scripted line)
ReadScripted ==
    /\ status = "running"
    /\ input # <<>>
    /\ Dispatch(Head(input))
    /\ n' = n + 1
    /\ input' = Tail(input)
    /\ hist' = Append(hist, [cmd |-> cmd', raw |-> raw', args |-> args',
                             env0 |-> env, cwd0 |-> cwd,
                             env |-> env', cwd |-> cwd', out |-> out',
                             err |-> err', action |-> action',
                             child |-> child'])
    /\ UNCHANGED host

\* readline gives Err(Eof) when the script is over
ReadScriptEof ==
    /\ status = "running"
    /\ input = <<>>
    /\ status' = "stopped"
    /\ UNCHANGED <<env, cwd, n, cmd, raw, args, out, err, action, child,
                   host, input, hist>>

NextScript == ReadScripted \/ ReadScriptEof

SpecScript == InitScript /\ [][NextScript]_vars

-----------------------------------------------------------------------------
(* expand_args on its own: every argument list over ExpandTokens of up to  *)
(* MaxArgs tokens, against every store of ExpandStores.                     *)

ExpandTokens == {"$A", "$B", "$", "$$A", "a$b", "A", "hello"}

ExpandStores ==
    { EmptyEnv,
      [A |-> "world"],
      [A |-> "$B", B |-> "Rust"],
      [B |-> ""],
      [A |-> "a b", hello |-> "x", b |-> "y"] }

ArgLists == UNION { [1..k -> ExpandTokens] : k \in 0..MaxArgs }

InitExpand ==
    /\ env \in ExpandStores
    /\ raw \in ArgLists
    /\ host = env
    /\ cwd = "/"
    /\ status = "expanding"
    /\ n = 0
    /\ cmd = "" /\ args = <<>>
    /\ out = "" /\ err = "" /\ action = "" /\ child = <<>>
    /\ input = <<>> /\ hist = <<>>

\* let expanded_args = expand_args(&args, &env)
ExpandArgs ==
    /\ status = "expanding"
    /\ args' = expand_args(raw, env)
    /\ status' = "expanded"
    /\ UNCHANGED <<env, cwd, n, cmd, raw, out, err, action, child,
                   host, input, hist>>

NextExpand == ExpandArgs

SpecExpand == InitExpand /\ [][NextExpand]_vars

-----------------------------------------------------------------------------
(* Properties *)

Expanded == status = "expanded"

\* C1: expanding a token `$V` gives exactly the value of V when V is in the
\* store, and exactly the token itself, sigil included, when V is not.
C1_DollarToken ==
    Expanded =>
        \A i \in 1..Len(raw) :
            StartsWith(raw[i], "$") =>
                LET V == SubSeq(raw[i], 2, Len(raw[i])) IN
                /\ i \in DOMAIN args
                /\ V \in DOMAIN env => args[i] = env[V]
                /\ V \notin DOMAIN env => args[i] = raw[i]

\* C1 happens: one list holds a `$V` with V present and a `$W` with W absent
C1_Witness ==
    /\ Expanded
    /\ \E i, j \in 1..Len(raw) :
           /\ raw[i] = "$A" /\ "A" \in DOMAIN env /\ args[i] = env["A"]
           /\ raw[j] = "$B" /\ "B" \notin DOMAIN env /\ args[j] = "$B"

\* C2: the output has the length and order of the input, a token that does
\* not begin with `$` is passed through unchanged, and a list with no
\* leading-`$` token is expanded to itself.
C2_LengthAndPassThrough ==
    Expanded =>
        /\ Len(args) = Len(raw)
        /\ \A i \in 1..Len(raw) :
               SubSeq(raw[i], 1, 1) # "$" => args[i] = raw[i]
        /\ (\A i \in 1..Len(raw) : SubSeq(raw[i], 1, 1) # "$") => args = raw

\* C2 happens: `a$b` passes through beside an expanded token, although a
\* variable b is set
C2_Witness ==
    /\ Expanded
    /\ Len(raw) > 1
    /\ "b" \in DOMAIN env
    /\ \E i, j \in 1..Len(raw) :
           /\ raw[i] = "a$b" /\ args[i] = "a$b"
           /\ raw[j] = "$A" /\ args[j] # raw[j]

\* A step in which the line source delivered a line.
LineRead == n' = n + 1

\* A step in which a line was dispatched and handle_command returned.
Dispatched == LineRead /\ action' \in {Continue, Exit}

\* C3: after `set K V`, get K gives V, whatever K held before; after
\* `unset K`, get K gives absence, whether or not K was there.
C3_SetGetUnsetGet ==
    /\ (cmd = "set" /\ Len(args) = 2) => get_var(env, args[1]) = Some(args[2])
    /\ (cmd = "unset" /\ Len(args) = 1) => get_var(env, args[1]) = None

\* C3 happens: a set has overwritten the value the variable had at the start
C3_Witness ==
    /\ cmd = "set" /\ Len(args) = 2
    /\ args[1] \in DOMAIN host /\ host[args[1]] # args[2]
    /\ env[args[1]] = args[2]

\* C4: `set` with an argument count other than 2 writes the line
\* `usage: set VAR VALUE` to the error sink, `unset` with a count other
\* than 1 writes the line `usage: unset VAR`; both leave the store
\* unchanged and return Continue.
C4_UsageErrors ==
    [][ /\ (LineRead /\ cmd' = "set" /\ Len(args') # 2) =>
             /\ err' = "usage: set VAR VALUE\n"
             /\ env' = env
             /\ action' = Continue
        /\ (LineRead /\ cmd' = "unset" /\ Len(args') # 1) =>
             /\ err' = "usage: unset VAR\n"
             /\ env' = env
             /\ action' = Continue ]_vars

\* C4 happens: a set with three arguments was refused
C4_Witness ==
    /\ cmd = "set" /\ Len(args) = 3
    /\ err = "usage: set VAR VALUE\n"
    /\ action = Continue

\* The directory an absolute path names.
DirOf(p) == Resolve("/", p)[1]

\* A finished run of `cd dir1`; `cd dir2`; `cd -`; `cd -`.
ToggleRun ==
    /\ Len(hist) = 4
    /\ \A i \in 1..4 : hist[i].cmd = "cd" /\ Len(hist[i].raw) = 1
    /\ hist[1].raw[1] \in DirPaths
    /\ hist[2].raw[1] \in DirPaths
    /\ hist[1].raw[1] # hist[2].raw[1]
    /\ hist[3].raw[1] = "-"
    /\ hist[4].raw[1] = "-"

\* C5: after `cd dir1`; `cd dir2`, a `cd -` leaves the working directory at
\* dir1 and a second `cd -` leaves it at dir2, and nothing is written to the
\* error sink, for any two distinct existing directories.
C5_ToggleClaim ==
    ToggleRun =>
        /\ hist[3].cwd = DirOf(hist[1].raw[1])
        /\ hist[4].cwd = DirOf(hist[2].raw[1])
        /\ \A i \in 1..4 : hist[i].err = ""

\* The step is a cd that calls set_current_dir and gets an Err: there is a
\* target, the current directory could be read, and the target names no
\* directory.
CdFails ==
    /\ LineRead
    /\ cmd' = "cd"
    /\ cd_target(args', env) # None
    /\ current_dir(cwd) # None
    /\ Resolve(cwd, cd_target(args', env)[1]) = None

\* C6: a cd whose directory change fails writes a message beginning with
\* `cd: ` to the error sink, leaves OLDPWD and PWD in the store as they were
\* (present or absent) and the working directory where it was, and returns
\* Continue.
C6_CdFailure ==
    [][ CdFails =>
           /\ StartsWith(err', "cd: ")
           /\ get_var(env', "OLDPWD") = get_var(env, "OLDPWD")
           /\ get_var(env', "PWD") = get_var(env, "PWD")
           /\ cwd' = cwd
           /\ action' = Continue ]_vars

\* C6 happens: a cd to a missing path failed while OLDPWD was absent
C6_Witness ==
    /\ cmd = "cd" /\ args = <<"/x">>
    /\ StartsWith(err, "cd: ")
    /\ "OLDPWD" \notin DOMAIN env
    /\ action = Continue

\* C7: `cd -` with OLDPWD absent from the store writes the line
\* `cd: OLDPWD not set` to the error sink, leaves the working directory and
\* the store unchanged and returns Continue.
C7_CdDashNoOldpwd ==
    [][ ( /\ LineRead
          /\ cmd' = "cd"
          /\ Len(args') >= 1 /\ args'[1] = "-"
          /\ "OLDPWD" \notin DOMAIN env ) =>
           /\ err' = "cd: OLDPWD not set\n"
           /\ cwd' = cwd
           /\ env' = env
           /\ action' = Continue ]_vars

\* C7 happens: `cd -` was refused for want of OLDPWD, with HOME set
C7_Witness ==
    /\ cmd = "cd" /\ args = <<"-">>
    /\ action = Continue
    /\ "OLDPWD" \notin DOMAIN env
    /\ "HOME" \in DOMAIN env
    /\ err = "cd: OLDPWD not set\n"

\* A bare `cd` at position k of the session, followed by a `pwd`.
CdThenPwd(k) ==
    /\ k + 1 <= Len(hist)
    /\ hist[k].cmd = "cd" /\ hist[k].args = <<>>
    /\ hist[k + 1].cmd = "pwd"

\* The value of HOME, or `/`, when the line at position k was read.
HomeAt(k) ==
    IF "HOME" \in DOMAIN hist[k].env0 THEN hist[k].env0["HOME"] ELSE "/"

\* C8 as stated: a bare `cd` moves the working directory to the value of
\* HOME (or `/` when HOME is absent) and writes nothing, and a `pwd` issued
\* afterwards outputs that directory.
C8_CdHomeClaim ==
    \A k \in 1..Len(hist) :
        CdThenPwd(k) =>
            /\ hist[k].cwd = HomeAt(k)
            /\ hist[k].out = "" /\ hist[k].err = ""
            /\ hist[k + 1].out = HomeAt(k) \o "\n"

\* C8 amended: a bare `cd` tries the value of HOME (or `/`).  When that
\* names a directory, the working directory becomes that directory and
\* nothing is written; when it does not, a `cd: ` message is written and
\* the working directory stays.  A `pwd` issued afterwards outputs the text
\* of the real working directory and a newline.
C8_CdHomeAmended ==
    \A k \in 1..Len(hist) :
        CdThenPwd(k) =>
            LET to == Resolve(hist[k].cwd0, HomeAt(k)) IN
            /\ hist[k].out = ""
            /\ to # None => (hist[k].cwd = to[1] /\ hist[k].err = "")
            /\ to = None => (hist[k].cwd = hist[k].cwd0
                             /\ StartsWith(hist[k].err, "cd: "))
            /\ hist[k + 1].out = to_string_lossy(hist[k].cwd) \o "\n"
            /\ hist[k + 1].err = ""

\* C8 happens: HOME was unset, a bare `cd` went to `/` from elsewhere, and
\* pwd printed it
C8_Witness ==
    /\ Len(hist) = 3
    /\ hist[1].cmd = "unset" /\ hist[1].args = <<"HOME">>
    /\ "HOME" \in DOMAIN hist[1].env0
    /\ CdThenPwd(2)
    /\ hist[2].cwd0 # "/" /\ hist[2].cwd = "/"
    /\ hist[3].out = "/\n"

\* C9: every successful cd sets OLDPWD to the directory that was left and
\* PWD to the new working directory.
C9_OldpwdPwdClaim ==
    [][ (Dispatched /\ cmd' = "cd" /\ err' = "") =>
           /\ get_var(env', "OLDPWD") = Some(cwd)
           /\ get_var(env', "PWD") = Some(cwd') ]_vars

\* C10: `exit` returns Exit for every argument list and every store, writes
\* nothing to either sink and does not modify the store.
C10_ExitAlways ==
    [][ (LineRead /\ cmd' = "exit") =>
           /\ action' = Exit
           /\ out' = "" /\ err' = ""
           /\ env' = env ]_vars

\* C10 happens: an `exit` with an argument ended the loop
C10_Witness ==
    /\ cmd = "exit" /\ args # <<>>
    /\ action = Exit
    /\ status = "stopped"

\* C11 as stated: every dispatched line whose command name is not `exit`
\* yields Continue, none ends the session or leaves handle_command by a
\* panic, and the loop goes on to read the next line.
C11_ContinueClaim ==
    [][ (LineRead /\ cmd' \notin {"", "exit"}) =>
           /\ action' = Continue
           /\ status' = "running" ]_vars

\* The session is over: the loop was left.
Stopped == status = "stopped"

\* C12: once a dispatched line has returned Exit, no further line is read
\* or dispatched: the lines after it stay in the line source, and the store
\* and the working directory stay as that line left them.
C12_NothingAfterExit ==
    \A k \in 1..Len(hist) :
        hist[k].action = Exit =>
            /\ k = Len(hist)
            /\ Stopped
            /\ n = k
            /\ env = hist[k].env
            /\ cwd = hist[k].cwd

\* C12 happens: an `exit` was dispatched after a line that changed the
\* store, with lines that would change it again still waiting
C12_Witness ==
    /\ Len(hist) = 2
    /\ hist[2].action = Exit
    /\ hist[1].env # hist[1].env0
    /\ Len(input) = 2
    /\ Stopped

\* C13 as stated: a line with no token is discarded by the driver, so
\* handle_command is never entered with it: a delivered line either has a
\* command name or leaves the session running with nothing dispatched.
C13_EmptyLineClaim ==
    [][ LineRead => (cmd' # "" \/ status' = "running") ]_vars

\* The line at position k of the session started an external process.
StartedAt(k) == hist[k].child # <<>> /\ hist[k].child[1].started

\* C14: whenever an external command is started, the child's environment
\* is exactly the store as it was when the line was dispatched: a variable
\* that was unset is not in it, a variable that was set is in it with its
\* latest value, and no variable of the host environment that is not in
\* the store is in it.
C14_ChildEnvIsStore ==
    \A k \in 1..Len(hist) :
        StartedAt(k) =>
            LET c == hist[k].child[1].env
                e == hist[k].env0
            IN  /\ DOMAIN c = DOMAIN e
                /\ \A v \in DOMAIN e : c[v] = e[v]
                /\ \A v \in DOMAIN host : v \notin DOMAIN e => v \notin DOMAIN c

\* C14 happens: a child was started after A was set twice and HOME, which
\* the host has, was unset
C14_Witness ==
    /\ Len(hist) = 4
    /\ StartedAt(4)
    /\ hist[1].cmd = "set" /\ hist[2].cmd = "set" /\ hist[3].cmd = "unset"
    /\ "HOME" \in DOMAIN host
    /\ "HOME" \notin DOMAIN hist[4].child[1].env
    /\ hist[4].child[1].env["A"] = "/a"

\* The text s contains the text sub.
Contains(s, sub) ==
    \E i \in 1..(Len(s) - Len(sub) + 1) : SubSeq(s, i, i + Len(sub) - 1) = sub

\* C15: a line whose command name is none of the seven registry names
\* (compared exactly) runs no builtin and leaves the store unchanged, and
\* a process is always tried with that name and the expanded arguments;
\* when the process cannot be started the result is Continue and a message
\* containing the command name is on the error stream.
C15_UnknownCommand ==
    [][ ( /\ LineRead
          /\ cmd' # ""
          /\ cmd' \notin {"cd", "pwd", "echo", "exit", "set", "unset", "env"} ) =>
           /\ env' = env
           /\ cwd' = cwd
           /\ out' = ""
           /\ child' # <<>>
           /\ child'[1].cmd = cmd'
           /\ child'[1].args = expand_args(raw', env)
           /\ ~child'[1].started =>
                  /\ action' = Continue
                  /\ Contains(err', cmd') ]_vars

\* C15 happens: `Exit`, which differs from a registry name by case only,
\* was tried as a program and could not be started
C15_Witness ==
    /\ cmd = "Exit"
    /\ child # <<>> /\ child[1].cmd = "Exit" /\ ~child[1].started
    /\ action = Continue
    /\ status = "running"
    /\ Contains(err, "Exit")

\* C16: `echo` writes its arguments joined by single spaces and one newline
\* to the output sink, for every argument list: `a b c\n` for the
\* arguments a, b, c and `\n` for none; it writes nothing to the error sink
\* and returns Continue.
C16_Echo ==
    \A k \in 1..Len(hist) :
        hist[k].cmd = "echo" =>
            /\ hist[k].out = join(hist[k].args, " ") \o "\n"
            /\ hist[k].args = <<"a", "b", "c">> => hist[k].out = "a b c\n"
            /\ hist[k].args = <<>> => hist[k].out = "\n"
            /\ hist[k].err = ""
            /\ hist[k].action = Continue

\* C16 happens: `echo a b c` and then a bare `echo` have written
C16_Witness ==
    /\ Len(hist) >= 2
    /\ hist[1].cmd = "echo" /\ hist[1].raw = <<"a", "b", "c">>
    /\ hist[1].out = "a b c\n"
    /\ hist[2].cmd = "echo" /\ hist[2].raw = <<>>
    /\ hist[2].out = "\n"

RECURSIVE LinesFrom(_, _, _)
LinesFrom(s, i, cur) ==
    IF i > Len(s)
    THEN IF cur = "" THEN <<>> ELSE <<cur>>
    ELSE IF SubSeq(s, i, i) = "\n"
    THEN <<cur>> \o LinesFrom(s, i + 1, "")
    ELSE LinesFrom(s, i + 1, cur \o SubSeq(s, i, i))

\* The lines of a text, without their newlines.
TextLines(s) == LinesFrom(s, 1, "")

\* The `name=value` texts of a store.
Entries(e) == {k \o "=" \o e[k] : k \in DOMAIN e}

\* What the claim says of the output of `env` for store e: as many lines as
\* entries, every entry on a line of its own, and no other line.
OneLinePerEntry(o, e) ==
    LET ls == TextLines(o) IN
    /\ Len(ls) = Cardinality(DOMAIN e)
    /\ \A t \in Entries(e) : \E i \in 1..Len(ls) : ls[i] = t
    /\ \A i \in 1..Len(ls) : ls[i] \in Entries(e)

\* C17 as stated: `env` writes exactly one `name=value` line per entry of
\* the store: the number of lines is the number of entries, every current
\* entry is on a line of its own, and no removed or overwritten value
\* appears.
C17_EnvClaim ==
    \A k \in 1..Len(hist) :
        hist[k].cmd = "env" => OneLinePerEntry(hist[k].out, hist[k].env0)

\* No name and no value of the store holds a line break.
SingleLine(e) ==
    \A k \in DOMAIN e : ~Contains(k, "\n") /\ ~Contains(e[k], "\n")

\* C17 amended: `env` writes, for each entry of the store once and in some
\* order, the text `name=value` and a newline, and nothing else; when no
\* name or value holds a line break, that is one line per entry.
C17_EnvAmended ==
    \A k \in 1..Len(hist) :
        hist[k].cmd = "env" =>
            /\ \E order \in Orders(DOMAIN hist[k].env0) :
                   hist[k].out = EnvLines(hist[k].env0, order)
            /\ hist[k].err = ""
            /\ hist[k].env = hist[k].env0
            /\ SingleLine(hist[k].env0) =>
                   OneLinePerEntry(hist[k].out, hist[k].env0)

\* C17 happens: `env` listed the store after A was set twice and B unset
C17_Witness ==
    /\ Len(hist) = 4
    /\ hist[4].cmd = "env"
    /\ hist[1].args = <<"A", "x">> /\ hist[3].args = <<"A", "y">>
    /\ "B" \in DOMAIN host /\ "B" \notin DOMAIN hist[4].env0
    /\ Contains(hist[4].out, "A=y\n")
    /\ ~Contains(hist[4].out, "A=x")
    /\ Len(TextLines(hist[4].out)) = 2

\* C18: the result of an expansion is never expanded again: when V is
\* present with a value that itself begins with `$` and names a present
\* variable W, the token `$V` becomes that value as it is, not the value
\* of W.
C18_ExpandedOnce ==
    Expanded =>
        \A i \in 1..Len(raw) : \A V, W \in DOMAIN env :
            (raw[i] = "$" \o V /\ env[V] = "$" \o W) =>
                /\ args[i] = "$" \o W
                /\ env[W] # "$" \o W => args[i] # env[W]

\* C18 happens: `$A` became `$B` while B was present with another value
C18_Witness ==
    /\ Expanded
    /\ "A" \in DOMAIN env /\ env["A"] = "$B"
    /\ "B" \in DOMAIN env /\ env["B"] = "Rust"
    /\ \E i \in 1..Len(raw) : raw[i] = "$A" /\ args[i] = "$B"

\* What the token t stands for against the store e.
ValueOf(t, e) ==
    IF SubSeq(t, 1, 1) = "$" /\ SubSeq(t, 2, Len(t)) \in DOMAIN e
    THEN e[SubSeq(t, 2, Len(t))]
    ELSE t

\* The line at position k is `echo $K` for a name K.
EchoOf(k, K) == hist[k].cmd = "echo" /\ hist[k].raw = <<"$" \o K>>

\* C19: the arguments of a line are expanded against the store as it is
\* when the line is dispatched, before the command runs: `echo $K` right
\* after `set K V` outputs V and right after `unset K` outputs `$K`, and
\* what `set` and `unset` do to the store is decided by their arguments as
\* expanded before they ran.
C19_ExpandAtDispatch ==
    \A k \in 1..Len(hist) :
        LET r  == hist[k].raw
            e0 == hist[k].env0
        IN
        /\ hist[k].cmd = "echo" =>
               hist[k].out = join([i \in 1..Len(r) |-> ValueOf(r[i], e0)], " ") \o "\n"
        /\ (hist[k].cmd = "set" /\ Len(r) = 2) =>
               hist[k].env = set_var(e0, ValueOf(r[1], e0), ValueOf(r[2], e0))
        /\ (hist[k].cmd = "unset" /\ Len(r) = 1) =>
               hist[k].env = unset_var(e0, ValueOf(r[1], e0))
        /\ k > 1 =>
               LET p  == hist[k - 1].raw
                   p0 == hist[k - 1].env0
               IN
               /\ (hist[k - 1].cmd = "set" /\ Len(p) = 2 /\ SubSeq(p[1], 1, 1) # "$"
                      /\ EchoOf(k, p[1])) =>
                      hist[k].out = ValueOf(p[2], p0) \o "\n"
               /\ (hist[k - 1].cmd = "unset" /\ Len(p) = 1 /\ SubSeq(p[1], 1, 1) # "$"
                      /\ EchoOf(k, p[1])) =>
                      hist[k].out = "$" \o p[1] \o "\n"

\* C19 happens: `echo $K` gave V after `set K V` and `$K` after `unset K`
C19_Witness ==
    /\ Len(hist) = 4
    /\ hist[1].cmd = "set" /\ hist[1].raw = <<"K", "V">>
    /\ EchoOf(2, "K") /\ hist[2].out = "V\n"
    /\ hist[3].cmd = "unset" /\ hist[3].raw = <<"K">>
    /\ EchoOf(4, "K") /\ hist[4].out = "$K\n"

\* The step is a cd that changed directory: it wrote no error and returned.
CdSucceeds == LineRead /\ cmd' = "cd" /\ err' = "" /\ action' = Continue

\* C20: only `set`, `unset` and a successful `cd` change the store, and
\* only a successful `cd` changes the working directory: `echo`, `pwd`,
\* `env`, `exit`, every builtin call that failed or was refused for its
\* arguments, and every external command, started or not, leave both as
\* they were; and no builtin starts a process.
C20_FrameEffects ==
    [][ LineRead =>
           /\ env' # env => (cmd' \in {"set", "unset"} \/ CdSucceeds)
           /\ cwd' # cwd => CdSucceeds
           /\ cmd' \in {"echo", "pwd", "env", "exit"} => (env' = env /\ cwd' = cwd)
           /\ (cmd' \in {"cd", "set", "unset"} /\ err' # "") =>
                  (env' = env /\ cwd' = cwd)
           /\ child' # <<>> =>
                  /\ env' = env /\ cwd' = cwd
                  /\ cmd' \notin {"cd", "pwd", "echo", "exit", "set", "unset", "env"}
           /\ cmd' \in {"cd", "pwd", "echo", "exit", "set", "unset", "env"} =>
                  child' = <<>> ]_vars

\* C20 happens: after a cd had changed the store and the directory, a pwd
\* left both as they were
C20_Witness ==
    /\ n = 2
    /\ cmd = "pwd" /\ action = Continue
    /\ cwd = "/a"
    /\ "PWD" \in DOMAIN env /\ env["PWD"] = "/a"
    /\ "PWD" \notin DOMAIN host

\* The line at position k of the session is a cd that changed directory.
CdDoneAt(k) ==
    hist[k].cmd = "cd" /\ hist[k].action = Continue /\ hist[k].err = ""

\* C21 as stated: whatever `set` and `unset` did to PWD and OLDPWD between
\* cds, each successful cd leaves PWD equal to the real working directory
\* and OLDPWD equal to the real working directory just before that cd, and
\* `cd -` goes to the value OLDPWD has in the store when it is dispatched.
C21_RealDirClaim ==
    \A k \in 1..Len(hist) :
        /\ CdDoneAt(k) =>
               /\ get_var(hist[k].env, "PWD") = Some(hist[k].cwd)
               /\ get_var(hist[k].env, "OLDPWD") = Some(hist[k].cwd0)
        /\ (CdDoneAt(k) /\ hist[k].args = <<"-">>) =>
               /\ "OLDPWD" \in DOMAIN hist[k].env0
               /\ Some(hist[k].cwd) = Resolve(hist[k].cwd0, hist[k].env0["OLDPWD"])

\* Variable names the sessions use behind a `$`.
Names == {"A", "B", "K"}

\* The store e1 is the store e0 but for the variables in ks.
SameBut(e1, e0, ks) ==
    \A v \in (DOMAIN e0 \cup DOMAIN e1) \ ks : get_var(e1, v) = get_var(e0, v)

\* C22: the arguments of a builtin are expanded before it runs.  With A
\* present with value B, `set $A v` sets B to v and leaves A as it was,
\* `unset $A` removes B and leaves A present, and `set K $A` stores B in K;
\* with A absent the same lines act on the literal `$A`.
C22_BuiltinArgsExpanded ==
    \A k \in 1..Len(hist) : \A A \in Names :
        LET r  == hist[k].raw
            e0 == hist[k].env0
            e1 == hist[k].env
            B  == IF A \in DOMAIN e0 THEN e0[A] ELSE "$" \o A
        IN
        /\ (hist[k].cmd = "set" /\ r = <<"$" \o A, "v">>) =>
               /\ get_var(e1, B) = Some("v")
               /\ SameBut(e1, e0, {B})
               /\ B # A => get_var(e1, A) = get_var(e0, A)
        /\ (hist[k].cmd = "unset" /\ r = <<"$" \o A>>) =>
               /\ get_var(e1, B) = None
               /\ SameBut(e1, e0, {B})
               /\ B # A => get_var(e1, A) = get_var(e0, A)
        /\ (hist[k].cmd = "set" /\ r = <<"K", "$" \o A>>) =>
               /\ get_var(e1, "K") = Some(B)
               /\ SameBut(e1, e0, {"K"})

\* C22 happens: with A holding B, `set $A v` set B, `set K $A` stored B in
\* K and `unset $A` removed B, and A still holds B
C22_Witness ==
    /\ Len(hist) = 4
    /\ hist[2].raw = <<"$A", "v">>
    /\ get_var(hist[2].env0, "A") = Some("B")
    /\ get_var(hist[2].env, "B") = Some("v")
    /\ get_var(hist[2].env, "A") = Some("B")
    /\ hist[3].raw = <<"K", "$A">>
    /\ get_var(hist[3].env, "K") = Some("B")
    /\ hist[4].cmd = "unset" /\ hist[4].raw = <<"$A">>
    /\ "B" \in DOMAIN hist[4].env0 /\ "B" \notin DOMAIN env
    /\ "$A" \notin DOMAIN env
    /\ get_var(env, "A") = Some("B")

=============================================================================
